---------------------------- MODULE Spec2Model ----------------------------
(***************************************************************************)
(* n8n-nodes-openai-langfuse: the LmChatOpenAiLangfuse node's supplyData   *)
(* (nodes/LmChatOpenAiLangfuse/LmChatOpenAiLangfuse.node.ts) and the       *)
(* LangfuseCallbackHandlerWrapper (utils/LangfuseCallbackHandlerWrapper.ts)*)
(*                                                                         *)
(* JavaScript values are modelled as tagged records [t, s, kids]:          *)
(*   t    the JavaScript type ("undefined", "null", "bool", "num", "str",  *)
(*        "arr", "obj");                                                   *)
(*   s    the text of a scalar, as a sequence of units (characters or      *)
(*        lexemes); <<>> for a value that has none;                        *)
(*   kids the own properties of an object (an array's are "0", "1", ...).  *)
(* A string that the code splits, trims or parses is a sequence of units.  *)
(***************************************************************************)
EXTENDS Integers, Sequences, FiniteSets, TLC

VARIABLES
    \* ---- LangfuseCallbackHandlerWrapper -------------------------------
    output,       \* the LLMResult object handed to handleLLMEnd (one heap object)
    call,         \* the arguments of the handleLLMEnd invocation in progress, as received
    superCalls,   \* what super.handleLLMEnd received, one entry per call, in order
    hpc,          \* "idle" | "pending" | "resolved" | "rejected": the returned promise
    superSettled, \* how the promise of the latest super.handleLLMEnd call settled:
                  \* "" (not yet), "fulfilled", or the error it rejected with
    thrown,       \* the error the returned promise rejected with, "" when none
    calls,        \* handleLLMEnd invocations so far
    \* ---- supplyData ---------------------------------------------------
    pc,           \* per invocation: "idle" | "awaitCredentials" | "returned" | "threw"
    ctx,          \* per invocation: what the engine hands it (parameters, credentials)
    ret,          \* per invocation: what it built and returned (or the error it threw)
    sdkStarted    \* process-wide: the NodeSDK instances started so far, in order

adapterVars == <<output, call, superCalls, hpc, superSettled, thrown, calls>>
supplyVars == <<pc, ctx, ret, sdkStarted>>
vars == <<output, call, superCalls, hpc, superSettled, thrown, calls, pc, ctx, ret, sdkStarted>>

(***************************************************************************)
(* JavaScript values                                                       *)
(***************************************************************************)
EmptyObj == [k \in {} |-> 0]

JUndef == [t |-> "undefined", s |-> <<>>, kids |-> EmptyObj]
JNull == [t |-> "null", s |-> <<>>, kids |-> EmptyObj]
JNum(n) == [t |-> "num", s |-> <<n>>, kids |-> EmptyObj]
JStr(u) == [t |-> "str", s |-> u, kids |-> EmptyObj]
JBool(b) == [t |-> "bool", s |-> <<b>>, kids |-> EmptyObj]
JObj(props) == [t |-> "obj", s |-> <<>>, kids |-> props]
JArr(props) == [t |-> "arr", s |-> <<>>, kids |-> props]

\* ToBoolean: what `if (v)`, `!v`, `v || w` and `v && w` test.
Truthy(v) ==
    CASE v.t = "undefined" -> FALSE
      [] v.t = "null" -> FALSE
      [] v.t = "bool" -> v.s = <<"true">>
      [] v.t = "num" -> v.s # <<"0">>
      [] v.t = "str" -> v.s # <<>>
      [] OTHER -> TRUE

\* o.k on an object's properties: undefined when o has no own property k.
Get(props, k) == IF k \in DOMAIN props THEN props[k] ELSE JUndef

\* o?.k: undefined when o is undefined or null.
OptGet(o, k) == IF o.t \in {"undefined", "null"} THEN JUndef ELSE Get(o.kids, k)

\* o.k = v, in place.
SetProp(o, k, v) == [o EXCEPT !.kids = (k :> v) @@ o.kids]

(***************************************************************************)
(* LangfuseCallbackHandlerWrapper.handleLLMEnd                             *)
(***************************************************************************)
MaxCalls == 2

\* Token-usage values an llmOutput may hold under either name: usage objects,
\* and values that are present but falsy.
Usage5 == JObj("promptTokens" :> JNum("5"))
Usage7 == JObj(("promptTokens" :> JNum("7")) @@ ("completionTokens" :> JNum("3")))
UsageValues == {Usage5, Usage7, JNull, JNum("0")}

OptionalProps(k, values) == {EmptyObj} \cup {(k :> v) : v \in values}

LlmOutputs ==
    {JObj(e @@ u @@ ("model_name" :> JStr(<<"gpt-4.1-mini">>))) :
        e \in OptionalProps("estimatedTokenUsage", UsageValues),
        u \in OptionalProps("tokenUsage", UsageValues)}

Generations == JArr("0" :> JArr("0" :> JObj("text" :> JStr(<<"hello">>))))

\* The LLMResult objects the chat client may emit: llmOutput is optional.
Results ==
    {JObj("generations" :> Generations)}
        \cup {JObj(("generations" :> Generations) @@ ("llmOutput" :> l)) : l \in LlmOutputs}

RunIds == {"run-1", "run-2"}
ParentRunIds == {JUndef, JStr(<<"parent-1">>)}

\* Lines 20-27: the condition of the mapping and the mapping itself.
NeedsMapping(o) ==
    /\ Truthy(OptGet(Get(o.kids, "llmOutput"), "estimatedTokenUsage"))
    /\ ~Truthy(OptGet(Get(o.kids, "llmOutput"), "tokenUsage"))

MapTokenUsage_AlwaysCopy(o) ==
    IF Truthy(OptGet(Get(o.kids, "llmOutput"), "estimatedTokenUsage"))
    THEN SetProp(o, "llmOutput",
                 SetProp(o.kids["llmOutput"], "tokenUsage",
                         o.kids["llmOutput"].kids["estimatedTokenUsage"]))
    ELSE o

\* Lines 20-27, with the estimate moved rather than copied.
MapTokenUsage_MoveEstimate(o) ==
    IF NeedsMapping(o)
    THEN SetProp(o, "llmOutput",
                 JObj(("tokenUsage" :> o.kids["llmOutput"].kids["estimatedTokenUsage"])
                        @@ [k \in (DOMAIN o.kids["llmOutput"].kids) \ {"estimatedTokenUsage"} |->
                               o.kids["llmOutput"].kids[k]]))
    ELSE o

\* Lines 20-27, with the two fields exchanged whenever an estimate is present.
MapTokenUsage_Swap(o) ==
    IF Truthy(OptGet(Get(o.kids, "llmOutput"), "estimatedTokenUsage"))
    THEN SetProp(o, "llmOutput",
                 SetProp(SetProp(o.kids["llmOutput"], "tokenUsage",
                                 o.kids["llmOutput"].kids["estimatedTokenUsage"]),
                         "estimatedTokenUsage",
                         Get(o.kids["llmOutput"].kids, "tokenUsage")))
    ELSE o

MapTokenUsage(o) ==
    IF NeedsMapping(o)
    THEN SetProp(o, "llmOutput",
                 SetProp(o.kids["llmOutput"], "tokenUsage",
                         o.kids["llmOutput"].kids["estimatedTokenUsage"]))
    ELSE o

\* Line 31 runs after lines 20-27: super.handleLLMEnd receives a reference to
\* the result object in the state the mapping left it in.
DelegatedResult_BeforeMapping(o) == o

DelegatedResult(o) == MapTokenUsage(o)

\* Lines 13-31: the body runs synchronously up to and including the call of
\* super.handleLLMEnd, whose promise it returns.
handleLLMEnd(o, runId, parentRunId) ==
    /\ calls < MaxCalls
    /\ hpc # "pending"
    /\ calls' = calls + 1
    /\ call' = [output |-> o, runId |-> runId, parentRunId |-> parentRunId]
    /\ output' = MapTokenUsage(o)
    /\ superCalls' = Append(superCalls,
                            [output |-> DelegatedResult(o), runId |-> runId,
                             parentRunId |-> parentRunId])
    /\ hpc' = "pending"
    /\ superSettled' = ""
    /\ thrown' = ""
    /\ UNCHANGED supplyVars

\* The chat client ends a generation with a new result object.
LLMEnd ==
    \E o \in Results, runId \in RunIds, parentRunId \in ParentRunIds :
        handleLLMEnd(o, runId, parentRunId)

\* The same result object is delivered to the handler once more.
LLMEndAgain ==
    /\ calls > 0
    /\ \E runId \in RunIds, parentRunId \in ParentRunIds :
        handleLLMEnd(output, runId, parentRunId)

\* What the wrapped handler may fail with.
Errors == {"LangfuseError", "NetworkError"}

\* The promise of super.handleLLMEnd settles; line 31 returns that promise
\* from an async method without a try, so the wrapper's promise settles the
\* same way.
SuperResolves ==
    /\ hpc = "pending"
    /\ hpc' = "resolved"
    /\ superSettled' = "fulfilled"
    /\ UNCHANGED <<output, call, superCalls, thrown, calls>>
    /\ UNCHANGED supplyVars

\* Line 31, inside a try whose catch swallows the failure.
SuperRejects_Caught ==
    /\ hpc = "pending"
    /\ \E e \in Errors : superSettled' = e
    /\ hpc' = "resolved"
    /\ UNCHANGED <<output, call, superCalls, thrown, calls>>
    /\ UNCHANGED supplyVars

SuperRejects ==
    /\ hpc = "pending"
    /\ \E e \in Errors :
        /\ superSettled' = e
        /\ thrown' = e
    /\ hpc' = "rejected"
    /\ UNCHANGED <<output, call, superCalls, calls>>
    /\ UNCHANGED supplyVars

NoCall == [output |-> JUndef, runId |-> "", parentRunId |-> JUndef]

(***************************************************************************)
(* Strings: String.prototype.trim, split, Array.prototype.filter(Boolean),  *)
(* join                                                                    *)
(***************************************************************************)
Whitespace == {" "}

RECURSIVE TrimStart(_)
TrimStart(u) ==
    IF u # <<>> /\ Head(u) \in Whitespace THEN TrimStart(Tail(u)) ELSE u

RECURSIVE TrimEnd(_)
TrimEnd(u) ==
    IF u # <<>> /\ u[Len(u)] \in Whitespace THEN TrimEnd(SubSeq(u, 1, Len(u) - 1)) ELSE u

Trim(u) == TrimEnd(TrimStart(u))

\* u.split(sep): the segments between the separators, empty ones included.
RECURSIVE SplitFrom(_, _, _)
SplitFrom(u, sep, seg) ==
    IF u = <<>> THEN <<seg>>
    ELSE IF Head(u) = sep THEN <<seg>> \o SplitFrom(Tail(u), sep, <<>>)
    ELSE SplitFrom(Tail(u), sep, Append(seg, Head(u)))

Split(u, sep) == SplitFrom(u, sep, <<>>)

MapTrim(list) == [n \in 1..Len(list) |-> Trim(list[n])]

\* list.filter(Boolean) on strings: the non-empty ones, in order.
FilterNonEmpty(list) == SelectSeq(list, LAMBDA seg : seg # <<>>)

RECURSIVE Join(_, _)
Join(list, sep) ==
    IF list = <<>> THEN <<>>
    ELSE IF Len(list) = 1 THEN list[1]
    ELSE list[1] \o <<sep>> \o Join(Tail(list), sep)

(***************************************************************************)
(* jsonParse (n8n-workflow): JSON.parse of a text, an exception when the   *)
(* text is not JSON. A text is a sequence of lexemes: punctuation, a       *)
(* blank, a literal, or a stray word that no JSON text may hold.           *)
(***************************************************************************)
StringLexemes ==
    {"\"langfusePrompt\"", "\"project\"", "\"sessionId\"", "\"demo\"", "\"prompt-1\"",
     "\"vs_1\"", "\"vs_2\"", "\"\"", "\"session.id\"", "\"user.id\"", "\"userId\"",
     "\"tags\"", "\"langfuse.trace.tags\""}

Unquote(lex) ==
    CASE lex = "\"langfusePrompt\"" -> "langfusePrompt"
      [] lex = "\"project\"" -> "project"
      [] lex = "\"sessionId\"" -> "sessionId"
      [] lex = "\"demo\"" -> "demo"
      [] lex = "\"prompt-1\"" -> "prompt-1"
      [] lex = "\"vs_1\"" -> "vs_1"
      [] lex = "\"vs_2\"" -> "vs_2"
      [] lex = "\"session.id\"" -> "session.id"
      [] lex = "\"user.id\"" -> "user.id"
      [] lex = "\"userId\"" -> "userId"
      [] lex = "\"tags\"" -> "tags"
      [] lex = "\"langfuse.trace.tags\"" -> "langfuse.trace.tags"
      [] OTHER -> ""

NumberLexemes == {"0", "1", "5"}

\* The text of a string literal, as a sequence of units.
LiteralText(lex) == IF Unquote(lex) = "" THEN <<>> ELSE <<Unquote(lex)>>

\* An array index as a property name.
IndexKey(n) ==
    CASE n = 0 -> "0" [] n = 1 -> "1" [] n = 2 -> "2" [] n = 3 -> "3"
      [] n = 4 -> "4" [] n = 5 -> "5" [] n = 6 -> "6" [] OTHER -> "7"

ParseFail == [ok |-> FALSE, v |-> JUndef, rest |-> <<>>]
ParseOk(v, rest) == [ok |-> TRUE, v |-> v, rest |-> rest]

RECURSIVE ParseValue(_)
RECURSIVE ParseMembers(_, _)
RECURSIVE ParseElements(_, _, _)

\* One JSON value at the start of u (no blank before it); rest has no blank
\* at its start.
ParseValue(u) ==
    IF u = <<>> THEN ParseFail
    ELSE LET h == Head(u)
             r == TrimStart(Tail(u))
         IN  CASE h = "null" -> ParseOk(JNull, r)
               [] h \in {"true", "false"} -> ParseOk(JBool(h), r)
               [] h \in NumberLexemes -> ParseOk(JNum(h), r)
               [] h \in StringLexemes -> ParseOk(JStr(LiteralText(h)), r)
               [] h = "{" ->
                    IF r # <<>> /\ Head(r) = "}"
                    THEN ParseOk(JObj(EmptyObj), TrimStart(Tail(r)))
                    ELSE ParseMembers(r, EmptyObj)
               [] h = "[" ->
                    IF r # <<>> /\ Head(r) = "]"
                    THEN ParseOk(JArr(EmptyObj), TrimStart(Tail(r)))
                    ELSE ParseElements(r, EmptyObj, 0)
               [] OTHER -> ParseFail

\* The members of an object after its "{": a later duplicate name wins.
ParseMembers(u, acc) ==
    IF u = <<>> \/ Head(u) \notin StringLexemes THEN ParseFail
    ELSE LET r1 == TrimStart(Tail(u))
         IN  IF r1 = <<>> \/ Head(r1) # ":" THEN ParseFail
             ELSE LET pv == ParseValue(TrimStart(Tail(r1)))
                      acc2 == (Unquote(Head(u)) :> pv.v) @@ acc
                  IN  IF ~pv.ok \/ pv.rest = <<>> THEN ParseFail
                      ELSE IF Head(pv.rest) = "}"
                           THEN ParseOk(JObj(acc2), TrimStart(Tail(pv.rest)))
                      ELSE IF Head(pv.rest) = ","
                           THEN ParseMembers(TrimStart(Tail(pv.rest)), acc2)
                      ELSE ParseFail

\* The elements of an array after its "[".
ParseElements(u, acc, n) ==
    LET pv == ParseValue(u)
        acc2 == (IndexKey(n) :> pv.v) @@ acc
    IN  IF ~pv.ok \/ pv.rest = <<>> THEN ParseFail
        ELSE IF Head(pv.rest) = "]"
             THEN ParseOk(JArr(acc2), TrimStart(Tail(pv.rest)))
        ELSE IF Head(pv.rest) = ","
             THEN ParseElements(TrimStart(Tail(pv.rest)), acc2, n + 1)
        ELSE ParseFail

\* [ok, v]: the value of the whole text, or ok = FALSE where JSON.parse throws.
jsonParse(u) ==
    LET p == ParseValue(TrimStart(u))
    IN  IF p.ok /\ p.rest = <<>> THEN [ok |-> TRUE, v |-> p.v]
        ELSE [ok |-> FALSE, v |-> JUndef]

(***************************************************************************)
(* supplyData: the values it computes, in source order. c is the context   *)
(* the engine hands one invocation: [credentials, typeVersion, params].    *)
(***************************************************************************)
\* a || b and a ?? b
Or(a, b) == IF Truthy(a) THEN a ELSE b
Nullish(a, b) == IF a.t \in {"undefined", "null"} THEN b ELSE a

\* v.k on any value but undefined and null: a primitive has no own property k.
PropOf(v, k) == IF v.t \in {"obj", "arr"} THEN Get(v.kids, k) ELSE JUndef

\* The array of the values of a sequence.
RECURSIVE ArrProps(_, _)
ArrProps(list, n) ==
    IF n = 0 THEN EmptyObj ELSE (IndexKey(n - 1) :> list[n]) @@ ArrProps(list, n - 1)

ArrOf(list) == JArr(ArrProps(list, Len(list)))
StrList(list) == [n \in 1..Len(list) |-> JStr(list[n])]

\* { ...v }: the own enumerable properties of v (a string's are its units).
SpreadValue(v) ==
    CASE v.t \in {"obj", "arr"} -> v.kids
      [] v.t = "str" -> ArrProps([n \in 1..Len(v.s) |-> JStr(<<v.s[n]>>)], Len(v.s))
      [] OTHER -> EmptyObj

\* this.getNodeParameter(name, itemIndex, fallback); model.value is the path
\* to the value of the resource locator.
getNodeParameter(c, name, fallback) ==
    IF name = "model.value"
    THEN (IF "model" \in DOMAIN c.params THEN PropOf(c.params["model"], "value") ELSE fallback)
    ELSE IF name \in DOMAIN c.params THEN c.params[name] ELSE fallback

langfuseOptions(c) == getNodeParameter(c, "langfuseMetadata", JObj(EmptyObj)).kids

sessionId(c) == Or(Get(langfuseOptions(c), "sessionId"), JStr(<<>>))
userId(c) == Or(Get(langfuseOptions(c), "userId"), JStr(<<>>))
tagsString(c) == Or(Get(langfuseOptions(c), "tags"), JStr(<<>>))

\* Line 621: the list of the trimmed, non-empty segments, as a sequence of texts.
tags(c) ==
    IF Truthy(tagsString(c))
    THEN FilterNonEmpty(MapTrim(Split(tagsString(c).s, ",")))
    ELSE <<>>

\* Line 625, with the old field tested first.
metadataSource_OldFirst(c) ==
    Or(Get(langfuseOptions(c), "customMetadata"), Get(langfuseOptions(c), "metadata"))

\* Line 625
metadataSource(c) ==
    Or(Get(langfuseOptions(c), "metadata"), Get(langfuseOptions(c), "customMetadata"))

\* Lines 624-638, with a catch that returns the empty object instead of the
\* raw-string wrapper.
ParseMetadata_EmptyFallback(src) ==
    IF ~Truthy(src) THEN JObj(EmptyObj)
    ELSE IF src.t = "str"
         THEN IF Trim(src.s) # <<>>
              THEN IF jsonParse(src.s).ok THEN jsonParse(src.s).v ELSE JObj(EmptyObj)
              ELSE JObj(EmptyObj)
    ELSE IF src.t \in {"obj", "arr"} THEN src
    ELSE JObj(EmptyObj)

\* Lines 624-638
ParseMetadata(src) ==
    IF ~Truthy(src) THEN JObj(EmptyObj)
    ELSE IF src.t = "str"
         THEN IF Trim(src.s) # <<>>
              THEN IF jsonParse(src.s).ok THEN jsonParse(src.s).v ELSE JObj("_raw" :> src)
              ELSE JObj(EmptyObj)
    ELSE IF src.t \in {"obj", "arr"} THEN src
    ELSE JObj(EmptyObj)

metadata(c) == ParseMetadata(metadataSource(c))

\* Line 644 reads metadata.langfusePrompt: a TypeError when metadata is null.
MetadataReadThrows(c) == metadata(c).t \in {"null", "undefined"}

\* Lines 643-647
langfusePromptData(c) ==
    IF Truthy(PropOf(metadata(c), "langfusePrompt"))
    THEN PropOf(metadata(c), "langfusePrompt")
    ELSE JUndef

\* Lines 651-663: the span processor and the NodeSDK this invocation starts.
NodeSDK(i, c) ==
    [by |-> i,
     spanProcessor |-> [publicKey |-> Get(c.credentials, "langfusePublicKey"),
                        secretKey |-> Get(c.credentials, "langfuseSecretKey"),
                        baseUrl |-> Get(c.credentials, "langfuseBaseUrl"),
                        exportMode |-> "immediate"]]

\* Lines 668-672, with the values passed as they are (no `|| undefined`, no
\* length test).
CallbackHandlerArgs_AsTheyAre(c) ==
    ("sessionId" :> sessionId(c))
        @@ ("userId" :> userId(c))
        @@ ("tags" :> ArrOf(StrList(tags(c))))

\* Lines 668-672
CallbackHandlerArgs(c) ==
    ("sessionId" :> Or(sessionId(c), JUndef))
        @@ ("userId" :> Or(userId(c), JUndef))
        @@ ("tags" :> IF Len(tags(c)) > 0 THEN ArrOf(StrList(tags(c))) ELSE JUndef)

\* Lines 668-672, with the handler built once per process and reused by
\* later invocations.
lfHandler_Cached(i, c) ==
    IF sdkStarted = <<>>
    THEN [kind |-> "CallbackHandler", by |-> i, args |-> CallbackHandlerArgs(c)]
    ELSE [kind |-> "CallbackHandler", by |-> sdkStarted[1].by,
          args |-> CallbackHandlerArgs(ctx[sdkStarted[1].by])]

lfHandler(i, c) == [kind |-> "CallbackHandler", by |-> i, args |-> CallbackHandlerArgs(c)]

N8nLlmTracing(i) == [kind |-> "N8nLlmTracing", by |-> i, args |-> EmptyObj]

\* Lines 682-684, with the plain parameter read whatever the version.
ModelParameter_Plain(c) == "model"

\* Lines 682-684: the name of the parameter that holds the model identifier.
ModelParameter(c) == IF c.typeVersion >= 3 THEN "model.value" ELSE "model"

\* Lines 678-684
modelName(c) == getNodeParameter(c, ModelParameter(c), JUndef)

\* The parameters an invocation has read with getNodeParameter when it gets
\* to line 644 (line 608), and when it gets past line 693.
ParametersReadAt644 == {"langfuseMetadata"}
ParametersRead(c) ==
    {"langfuseMetadata", ModelParameter(c), "responsesApiEnabled", "options", "builtInTools"}

\* Line 687, with true as the fallback of the parameter.
responsesApiEnabled_DefaultTrue(c) ==
    Truthy(getNodeParameter(c, "responsesApiEnabled", JBool("true")))

\* Line 687
responsesApiEnabled(c) == Truthy(getNodeParameter(c, "responsesApiEnabled", JBool("false")))

\* Lines 690, 693
options(c) == getNodeParameter(c, "options", JObj(EmptyObj)).kids
builtInTools(c) == getNodeParameter(c, "builtInTools", JObj(EmptyObj)).kids

\* Lines 696-702, with the credentials' url tested first.
configuration_CredentialsFirst(c) ==
    IF Truthy(Get(c.credentials, "url")) THEN "baseURL" :> Get(c.credentials, "url")
    ELSE IF Truthy(Get(options(c), "baseURL")) THEN "baseURL" :> Get(options(c), "baseURL")
    ELSE EmptyObj

\* Lines 696-702
configuration(c) ==
    IF Truthy(Get(options(c), "baseURL")) THEN "baseURL" :> Get(options(c), "baseURL")
    ELSE IF Truthy(Get(c.credentials, "url")) THEN "baseURL" :> Get(c.credentials, "url")
    ELSE EmptyObj

ReasoningEfforts == {<<"low">>, <<"medium">>, <<"high">>}

\* Lines 714-715, with the enum test left out.
ReasoningEffortKwarg_NoGate(opts) ==
    IF Truthy(Get(opts, "reasoningEffort"))
    THEN "reasoning_effort" :> Get(opts, "reasoningEffort")
    ELSE EmptyObj

\* Lines 714-715
ReasoningEffortKwarg(opts) ==
    IF /\ Truthy(Get(opts, "reasoningEffort"))
       /\ Get(opts, "reasoningEffort").t = "str"
       /\ Get(opts, "reasoningEffort").s \in ReasoningEfforts
    THEN "reasoning_effort" :> Get(opts, "reasoningEffort")
    ELSE EmptyObj

\* Line 713, with the format passed bare instead of wrapped in { type }.
ResponseFormatKwarg_Bare(opts) ==
    IF Truthy(Get(opts, "responseFormat"))
    THEN "response_format" :> Get(opts, "responseFormat")
    ELSE EmptyObj

\* Line 713
ResponseFormatKwarg(opts) ==
    IF Truthy(Get(opts, "responseFormat"))
    THEN "response_format" :> JObj("type" :> Get(opts, "responseFormat"))
    ELSE EmptyObj

\* A property `to` holding opts[from], when that option is set.
CopyIfPresent(opts, from, to) ==
    IF Truthy(Get(opts, from)) THEN to :> Get(opts, from) ELSE EmptyObj

\* Lines 712-715, with the service tier copied by the legacy branch too.
LegacyKwargs_WithServiceTier(opts) ==
    ResponseFormatKwarg(opts) @@ ReasoningEffortKwarg(opts)
        @@ CopyIfPresent(opts, "serviceTier", "service_tier")

\* Lines 712-715: the legacy branch.
LegacyKwargs(opts) == ResponseFormatKwarg(opts) @@ ReasoningEffortKwarg(opts)

\* ./common prepareAdditionalResponsesParams: a property per option that is
\* present, the metadata parsed (an exception when it is not JSON), the
\* reasoning effort gated by the same enum.
prepareAdditionalResponsesParams(opts) ==
    IF Truthy(Get(opts, "metadata")) /\ ~jsonParse(Get(opts, "metadata").s).ok
    THEN [ok |-> FALSE, v |-> EmptyObj]
    ELSE [ok |-> TRUE,
          v |-> CopyIfPresent(opts, "conversationId", "conversation")
                  @@ (IF Truthy(Get(opts, "metadata"))
                      THEN "metadata" :> jsonParse(Get(opts, "metadata").s).v
                      ELSE EmptyObj)
                  @@ CopyIfPresent(opts, "promptCacheKey", "prompt_cache_key")
                  @@ (IF /\ Truthy(Get(opts, "reasoningEffort"))
                         /\ Get(opts, "reasoningEffort").s \in ReasoningEfforts
                      THEN "reasoning_effort" :> Get(opts, "reasoningEffort")
                      ELSE EmptyObj)
                  @@ CopyIfPresent(opts, "safetyIdentifier", "safety_identifier")
                  @@ CopyIfPresent(opts, "serviceTier", "service_tier")
                  @@ CopyIfPresent(opts, "topLogprobs", "top_logprobs")]

\* Lines 705-717, with the call of line 708 wrapped in a catch that falls
\* back to the legacy fields.
modelKwargs_CatchParse(c) ==
    IF responsesApiEnabled(c) /\ prepareAdditionalResponsesParams(options(c)).ok
    THEN prepareAdditionalResponsesParams(options(c))
    ELSE [ok |-> TRUE, v |-> LegacyKwargs(options(c))]

\* Lines 705-717, with the extra parameters built only by the first
\* invocation of the process (later ones pass an empty object).
modelKwargs_FirstRunOnly(c) ==
    IF sdkStarted # <<>> THEN [ok |-> TRUE, v |-> EmptyObj]
    ELSE IF responsesApiEnabled(c)
    THEN prepareAdditionalResponsesParams(options(c))
    ELSE [ok |-> TRUE, v |-> LegacyKwargs(options(c))]

\* Lines 705-717: [ok, v], ok = FALSE where line 708 throws.
modelKwargs(c) ==
    IF responsesApiEnabled(c)
    THEN prepareAdditionalResponsesParams(options(c))
    ELSE [ok |-> TRUE, v |-> LegacyKwargs(options(c))]

AllowList == {"frequencyPenalty", "maxTokens", "presencePenalty", "temperature", "topP", "baseURL"}

\* lodash pick
pick(props, keys) == [k \in (DOMAIN props) \cap keys |-> props[k]]

\* Lines 719-726, with the whole record passed on.
includedOptions_NoPick(c) == options(c)

\* Lines 719-726
includedOptions(c) == pick(options(c), AllowList)

\* Lines 730-752, with the metadata not spread into the object (line 730
\* starting from {}).
chatOpenAIMetadata_NoSpread(c) ==
    LET m1 == IF Truthy(sessionId(c))
              THEN ("session.id" :> sessionId(c)) @@ ("sessionId" :> sessionId(c))
              ELSE EmptyObj
        m2 == IF Truthy(userId(c))
              THEN ("user.id" :> userId(c)) @@ ("userId" :> userId(c)) @@ m1
              ELSE m1
        m3 == IF Len(tags(c)) > 0
              THEN ("langfuse.trace.tags" :> ArrOf(StrList(tags(c))))
                       @@ ("tags" :> JStr(Join(tags(c), ","))) @@ m2
              ELSE m2
    IN  IF Truthy(langfusePromptData(c))
        THEN ("langfusePrompt" :> langfusePromptData(c)) @@ m3
        ELSE m3

\* Lines 730-752, with only the Langfuse-convention keys written (no
\* session.id, user.id, langfuse.trace.tags).
chatOpenAIMetadata_NoOtelKeys(c) ==
    LET m0 == SpreadValue(metadata(c))
        m1 == IF Truthy(sessionId(c)) THEN ("sessionId" :> sessionId(c)) @@ m0 ELSE m0
        m2 == IF Truthy(userId(c)) THEN ("userId" :> userId(c)) @@ m1 ELSE m1
        m3 == IF Len(tags(c)) > 0 THEN ("tags" :> JStr(Join(tags(c), ","))) @@ m2 ELSE m2
    IN  IF Truthy(langfusePromptData(c))
        THEN ("langfusePrompt" :> langfusePromptData(c)) @@ m3
        ELSE m3

\* Lines 730-752, with the metadata spread last, over the attribution keys.
chatOpenAIMetadata_UserWins(c) ==
    LET m1 == IF Truthy(sessionId(c))
              THEN ("session.id" :> sessionId(c)) @@ ("sessionId" :> sessionId(c))
              ELSE EmptyObj
        m2 == IF Truthy(userId(c))
              THEN ("user.id" :> userId(c)) @@ ("userId" :> userId(c)) @@ m1
              ELSE m1
        m3 == IF Len(tags(c)) > 0
              THEN ("langfuse.trace.tags" :> ArrOf(StrList(tags(c))))
                       @@ ("tags" :> JStr(Join(tags(c), ","))) @@ m2
              ELSE m2
    IN  SpreadValue(metadata(c)) @@ m3

\* Lines 730-752
chatOpenAIMetadata(c) ==
    LET m0 == SpreadValue(metadata(c))
        m1 == IF Truthy(sessionId(c))
              THEN ("session.id" :> sessionId(c)) @@ ("sessionId" :> sessionId(c)) @@ m0
              ELSE m0
        m2 == IF Truthy(userId(c))
              THEN ("user.id" :> userId(c)) @@ ("userId" :> userId(c)) @@ m1
              ELSE m1
        m3 == IF Len(tags(c)) > 0
              THEN ("langfuse.trace.tags" :> ArrOf(StrList(tags(c))))
                       @@ ("tags" :> JStr(Join(tags(c), ","))) @@ m2
              ELSE m2
    IN  IF Truthy(langfusePromptData(c))
        THEN ("langfusePrompt" :> langfusePromptData(c)) @@ m3
        ELSE m3

\* Lines 758-759, with the defaults left out.
TimeoutFields_NoDefaults(opts) ==
    ("timeout" :> Get(opts, "timeout")) @@ ("maxRetries" :> Get(opts, "maxRetries"))

\* Lines 758-759
TimeoutFields(opts) ==
    ("timeout" :> Nullish(Get(opts, "timeout"), JNum("60000")))
        @@ ("maxRetries" :> Nullish(Get(opts, "maxRetries"), JNum("2")))

\* Line 761, with the two callbacks in the other order.
callbacks_Reversed(i, c) == <<N8nLlmTracing(i), lfHandler(i, c)>>

\* Line 761
callbacks(i, c) == <<lfHandler(i, c), N8nLlmTracing(i)>>

\* Lines 754-770: later properties of the literal win over spread ones.
fields(i, c) ==
    (IF responsesApiEnabled(c)
     THEN ("useResponsesApi" :> JBool("true")) @@ ("outputVersion" :> JStr(<<"responses/v1">>))
     ELSE EmptyObj)
        @@ ("modelKwargs" :> modelKwargs(c).v)
        @@ ("metadata" :> chatOpenAIMetadata(c))
        @@ ("callbacks" :> callbacks(i, c))
        @@ ("configuration" :> configuration(c))
        @@ TimeoutFields(options(c))
        @@ includedOptions(c)
        @@ ("model" :> modelName(c))
        @@ ("apiKey" :> Get(c.credentials, "apiKey"))

\* ./common formatBuiltInTools: one descriptor per selected tool, in the
\* order web search, file search, code interpreter; [ok, v], ok = FALSE where
\* the vector store ids or the filters are not JSON.
\* The allowed domains, with the empty segments kept.
AllowedDomains_KeepEmpty(text) == MapTrim(Split(text, ","))

AllowedDomains(text) == FilterNonEmpty(MapTrim(Split(text, ",")))

WebSearchTool(ws) ==
    JObj(("type" :> JStr(<<"web_search">>))
            @@ ("search_context_size" :> Or(PropOf(ws, "searchContextSize"), JStr(<<"medium">>)))
            @@ ("allowed_domains" :>
                    ArrOf(StrList(AllowedDomains(Or(PropOf(ws, "allowedDomains"), JStr(<<>>)).s))))
            @@ CopyIfPresent(ws.kids, "city", "city")
            @@ CopyIfPresent(ws.kids, "region", "region")
            @@ CopyIfPresent(ws.kids, "country", "country"))

VectorStoreIds(fs) == jsonParse(Or(PropOf(fs, "vectorStoreIds"), JStr(<<"[", "]">>)).s)
Filters(fs) == jsonParse(PropOf(fs, "filters").s)

FileSearchParses(fs) ==
    /\ VectorStoreIds(fs).ok
    /\ Truthy(PropOf(fs, "filters")) => Filters(fs).ok

FileSearchTool(fs) ==
    JObj(("type" :> JStr(<<"file_search">>))
            @@ ("vector_store_ids" :> VectorStoreIds(fs).v)
            @@ (IF Truthy(PropOf(fs, "filters")) THEN "filters" :> Filters(fs).v ELSE EmptyObj)
            @@ ("max_num_results" :> Or(PropOf(fs, "maxResults"), JNum("1"))))

CodeInterpreterTool == JObj("type" :> JStr(<<"code_interpreter">>))

formatBuiltInTools(tools) ==
    IF Truthy(Get(tools, "fileSearch")) /\ ~FileSearchParses(Get(tools, "fileSearch"))
    THEN [ok |-> FALSE, v |-> <<>>]
    ELSE [ok |-> TRUE,
          v |-> (IF Truthy(Get(tools, "webSearch"))
                 THEN <<WebSearchTool(Get(tools, "webSearch"))>> ELSE <<>>)
                  \o (IF Truthy(Get(tools, "fileSearch"))
                      THEN <<FileSearchTool(Get(tools, "fileSearch"))>> ELSE <<>>)
                  \o (IF Truthy(Get(tools, "codeInterpreter"))
                      THEN <<CodeInterpreterTool>> ELSE <<>>)]

\* Lines 784-802, with the call of line 786 wrapped in a catch that attaches
\* no tools.
formattedTools_CatchParse(c) ==
    IF responsesApiEnabled(c) /\ formatBuiltInTools(builtInTools(c)).ok
    THEN formatBuiltInTools(builtInTools(c))
    ELSE [ok |-> TRUE, v |-> <<>>]

\* Lines 784-802: the tools that are formatted (none when the Responses API
\* is off); ok = FALSE where line 786 throws.
formattedTools(c) ==
    IF responsesApiEnabled(c)
    THEN formatBuiltInTools(builtInTools(c))
    ELSE [ok |-> TRUE, v |-> <<>>]

\* Lines 781-802, with the tools merged into the metadata argument before
\* the construction.
model_ToolsAtConstruction(i, c) ==
    [fields |-> ("metadata" :>
                    (IF Len(formattedTools(c).v) > 0
                     THEN ("tools" :> ArrOf(formattedTools(c).v)) @@ chatOpenAIMetadata(c)
                     ELSE chatOpenAIMetadata(c))) @@ fields(i, c),
     metadata |-> IF Len(formattedTools(c).v) > 0
                  THEN ("tools" :> ArrOf(formattedTools(c).v)) @@ chatOpenAIMetadata(c)
                  ELSE chatOpenAIMetadata(c)]

\* Lines 781-802: the ChatOpenAI instance, its metadata after the tools.
model(i, c) ==
    [fields |-> fields(i, c),
     metadata |-> IF Len(formattedTools(c).v) > 0
                  THEN ("tools" :> ArrOf(formattedTools(c).v)) @@ chatOpenAIMetadata(c)
                  ELSE chatOpenAIMetadata(c)]

NoModel == [fields |-> EmptyObj, metadata |-> EmptyObj]
NoHandler == [kind |-> "none", by |-> 0, args |-> EmptyObj]

\* What an invocation has not produced yet.
NoRet ==
    [status |-> "none", error |-> "", started |-> FALSE, read |-> {}, metadata |-> JUndef,
     lfHandler |-> NoHandler, includedOptions |-> EmptyObj, modelKwargs |-> EmptyObj,
     response |-> NoModel]

\* Lines 607-807: the synchronous body that runs once the credentials have
\* arrived; what it built, and whether it returned or threw (and where).
supplyDataBody(i, c) ==
    IF MetadataReadThrows(c)
    THEN [NoRet EXCEPT !.status = "threw", !.error = "TypeError: metadata",
                       !.read = ParametersReadAt644, !.metadata = metadata(c)]
    ELSE IF ~modelKwargs(c).ok
    THEN [NoRet EXCEPT !.status = "threw", !.error = "jsonParse: options",
                       !.started = TRUE, !.read = ParametersRead(c), !.metadata = metadata(c),
                       !.lfHandler = lfHandler(i, c)]
    ELSE IF ~formattedTools(c).ok
    THEN [NoRet EXCEPT !.status = "threw", !.error = "jsonParse: builtInTools",
                       !.started = TRUE, !.read = ParametersRead(c), !.metadata = metadata(c),
                       !.lfHandler = lfHandler(i, c),
                       !.includedOptions = includedOptions(c),
                       !.modelKwargs = modelKwargs(c).v]
    ELSE [status |-> "returned", error |-> "", started |-> TRUE, read |-> ParametersRead(c),
          metadata |-> metadata(c),
          lfHandler |-> lfHandler(i, c), includedOptions |-> includedOptions(c),
          modelKwargs |-> modelKwargs(c).v, response |-> model(i, c)]

(***************************************************************************)
(* What the engine may hand an invocation                                  *)
(***************************************************************************)
NumInv == 2
MaxOptKeys == 2
MaxTextLen == 2

Inv == 1..NumInv

Text(unit) == JStr(<<unit>>)

CredentialsA ==
    ("apiKey" :> Text("sk-A")) @@ ("langfusePublicKey" :> Text("pk-lf-A"))
        @@ ("langfuseSecretKey" :> Text("sk-lf-A"))
        @@ ("langfuseBaseUrl" :> Text("https://cloud.langfuse.test"))

CredentialsB ==
    ("apiKey" :> Text("sk-B")) @@ ("url" :> Text("https://proxy.test/v1"))
        @@ ("langfusePublicKey" :> Text("pk-lf-B"))
        @@ ("langfuseSecretKey" :> Text("sk-lf-B"))
        @@ ("langfuseBaseUrl" :> Text("https://eu.langfuse.test"))

\* The model parameter: a resource locator from version 3 on, a string before.
ModelParam(version) ==
    IF version >= 3
    THEN "model" :> JObj(("mode" :> Text("list")) @@ ("value" :> Text("gpt-4.1-mini")))
    ELSE "model" :> Text("gpt-4o-mini")

Context(credentials, version, params) ==
    [credentials |-> credentials, typeVersion |-> version,
     params |-> params @@ ModelParam(version)]

\* JSON texts of the json-typed fields, as lexeme sequences.
TextObjEmpty == <<"{", "}">>
TextObjProject == <<"{", "\"project\"", ":", " ", "\"demo\"", "}">>
TextObjPrompt ==
    <<"{", "\"langfusePrompt\"", ":", "\"prompt-1\"", ",", "\"project\"", ":", "1", "}">>
TextObjSession == <<"{", "\"sessionId\"", ":", "\"demo\"", "}">>
TextObjAttribution ==
    <<"{", "\"session.id\"", ":", "\"demo\"", ",", "\"sessionId\"", ":", "\"demo\"", ",",
      "\"user.id\"", ":", "\"demo\"", ",", "\"userId\"", ":", "\"demo\"", ",",
      "\"langfuse.trace.tags\"", ":", "\"demo\"", ",", "\"tags\"", ":", "\"demo\"", ",",
      "\"project\"", ":", "1", "}">>
TextObjPromptObject ==
    <<"{", "\"langfusePrompt\"", ":", " ", "{", "\"project\"", ":", "1", "}", "}">>
TextObjPromptNull ==
    <<"{", "\"project\"", ":", "\"demo\"", ",", "\"langfusePrompt\"", ":", "null", "}">>
TextUnclosed == <<"{", "\"project\"", ":", "\"demo\"">>
TextTrailing == <<"{", "}", " ", "x">>
TextNull == <<"null">>
TextNumber == <<"5">>
TextString == <<"\"demo\"">>
TextArray == <<"[", "\"vs_1\"", ",", " ", "\"vs_2\"", "]">>
TextArrayUnclosed == <<"[", "\"vs_1\"">>

\* Every text of at most n units over a small alphabet.
RECURSIVE TextsUpTo(_)
TextsUpTo(n) ==
    IF n = 0 THEN {<<>>}
    ELSE TextsUpTo(n - 1)
            \cup {Append(u, x) : u \in {w \in TextsUpTo(n - 1) : Len(w) = n - 1},
                                 x \in {"{", "}", " ", "x", "null"}}

MetadataTexts ==
    TextsUpTo(MaxTextLen)
        \cup {TextObjProject, TextObjPrompt, TextObjSession, TextUnclosed, TextTrailing,
              TextNumber, TextString, TextArray, TextArrayUnclosed}

\* The values an option may hold (the declared type of description.properties;
\* a reasoning effort may come from an expression and be any string).
OptionValues(k) ==
    CASE k = "frequencyPenalty" -> {JNum("0.5")}
      [] k = "maxTokens" -> {JNum("100"), JNum("-1")}
      [] k = "presencePenalty" -> {JNum("0")}
      [] k = "temperature" -> {JNum("0.9"), JNum("0")}
      [] k = "topP" -> {JNum("1")}
      [] k = "baseURL" -> {Text("https://example.test/v1")}
      [] k = "timeout" -> {JNum("30000"), JNum("0")}
      [] k = "maxRetries" -> {JNum("5"), JNum("0")}
      [] k = "responseFormat" -> {Text("text"), Text("json_object")}
      [] k = "reasoningEffort" ->
            {Text("low"), Text("medium"), Text("high"), JStr(<<>>), Text("LOW"),
             Text("Medium"), Text("minimal")}
      [] k = "conversationId" -> {Text("conv-1")}
      [] k = "metadata" -> {JStr(TextObjProject), JStr(TextUnclosed), JStr(<<" ">>)}
      [] k = "promptCacheKey" -> {Text("cache-1")}
      [] k = "safetyIdentifier" -> {Text("user-hash")}
      [] k = "serviceTier" -> {Text("auto"), Text("flex")}
      [] OTHER -> {JNum("3")}

OptionKeys ==
    {"frequencyPenalty", "maxTokens", "presencePenalty", "temperature", "topP", "baseURL",
     "timeout", "maxRetries", "responseFormat", "reasoningEffort", "conversationId",
     "metadata", "promptCacheKey", "safetyIdentifier", "serviceTier", "topLogprobs"}

\* Every record that holds at most n of the keys.
RECURSIVE RecordsOver(_, _)
RecordsOver(keys, n) ==
    IF n = 0 \/ keys = {} THEN {EmptyObj}
    ELSE LET k == CHOOSE x \in keys : TRUE
         IN  RecordsOver(keys \ {k}, n)
                \cup {(k :> v) @@ r : v \in OptionValues(k), r \in RecordsOver(keys \ {k}, n - 1)}

OptionsRecords == RecordsOver(OptionKeys, MaxOptKeys)

ModeParams ==
    {EmptyObj, "responsesApiEnabled" :> JBool("true"), "responsesApiEnabled" :> JBool("false")}

\* The Parameter Mapper's inputs: every Options Record in every mode.
MapperInputs ==
    {Context(CredentialsA, 3, ("options" :> JObj(o)) @@ m) : o \in OptionsRecords, m \in ModeParams}

WebSearchSelections ==
    {EmptyObj,
     "webSearch" :> JObj("searchContextSize" :> Text("medium")),
     "webSearch" :> JObj(("searchContextSize" :> Text("high"))
                            @@ ("allowedDomains" :> JStr(<<"a", ",", " ", "b", ",">>))),
     "webSearch" :> JObj(("searchContextSize" :> Text("low"))
                            @@ ("allowedDomains" :>
                                    JStr(<<"google.com", ",", " ", "wikipedia.org">>))),
     "webSearch" :> JObj(("searchContextSize" :> Text("low"))
                            @@ ("allowedDomains" :> JStr(<<>>)))}

FileSearchSelections ==
    {EmptyObj}
        \cup {"fileSearch" :> JObj(("vectorStoreIds" :> JStr(ids)) @@ f @@ ("maxResults" :> JNum("5"))) :
                ids \in {<<"[", "]">>, TextArray, TextArrayUnclosed, TextObjEmpty},
                f \in {EmptyObj, "filters" :> JStr(TextObjEmpty),
                       "filters" :> JStr(TextObjProject), "filters" :> JStr(TextTrailing)}}

CodeInterpreterSelections ==
    {EmptyObj, "codeInterpreter" :> JBool("true"), "codeInterpreter" :> JBool("false")}

ToolSelections ==
    {w @@ f @@ ci : w \in WebSearchSelections, f \in FileSearchSelections,
                    ci \in CodeInterpreterSelections}

\* The tool selections, alone and next to a Langfuse context.
ToolInputs ==
    {Context(CredentialsB, 3, ("builtInTools" :> JObj(t)) @@ m @@ l) :
        t \in ToolSelections, m \in ModeParams,
        l \in {EmptyObj,
               "langfuseMetadata" :> JObj(("sessionId" :> Text("session-1"))
                                             @@ ("metadata" :> JStr(TextObjProject)))}}

\* The Langfuse Metadata collection: every metadata text, with and without
\* the old customMetadata field (as a text or as an object).
MetadataRecords ==
    {md @@ cm @@ sid :
        md \in {EmptyObj} \cup {"metadata" :> JStr(u) : u \in MetadataTexts},
        cm \in {EmptyObj, "customMetadata" :> JStr(TextObjProject),
                "customMetadata" :> JStr(TextUnclosed),
                "customMetadata" :> JObj("project" :> Text("legacy")),
                "customMetadata" :> JObj("langfusePrompt" :> JObj("name" :> Text("prompt-2")))},
        sid \in {EmptyObj, "sessionId" :> Text("session-1")}}

LangfuseRecords ==
    {sid @@ uid @@ tg @@ md :
        sid \in {EmptyObj, "sessionId" :> Text("session-1"), "sessionId" :> JStr(<<>>)},
        uid \in {EmptyObj, "userId" :> Text("user-1")},
        tg \in {EmptyObj, "tags" :> JStr(<<>>), "tags" :> JStr(<<"a", ",", " ", "b", ",">>),
                "tags" :> JStr(<<" ", ",">>),
                "tags" :> JStr(<<" ", "b", " ", "c", " ", ",", ",", "a">>)},
        md \in {EmptyObj, "metadata" :> JStr(TextObjPrompt), "metadata" :> JStr(TextObjSession),
                "metadata" :> JStr(TextObjPromptObject), "metadata" :> JStr(TextObjPromptNull),
                "metadata" :> JStr(TextObjAttribution)}}

ContextInputs ==
    {Context(CredentialsA, 3, "langfuseMetadata" :> JObj(l)) : l \in MetadataRecords}
        \cup {Context(cr, v, ("langfuseMetadata" :> JObj(l)) @@ m) :
                cr \in {CredentialsA, CredentialsB}, v \in {1, 2, 3},
                l \in LangfuseRecords, m \in ModeParams}

\* The two places a base URL may come from, each set, empty or absent.
ConfigurationInputs ==
    {Context(cr @@ CredentialsB, 3, o @@ m) :
        cr \in {EmptyObj, "url" :> JStr(<<>>)},
        o \in {EmptyObj, "options" :> JObj("baseURL" :> Text("https://example.test/v1")),
               "options" :> JObj("baseURL" :> JStr(<<>>))},
        m \in ModeParams}

Inputs == MapperInputs \cup ToolInputs \cup ContextInputs \cup ConfigurationInputs

\* What concurrent invocations are handed: two credentials, with and without
\* a session, in both modes, some that throw before or after the SDK start.
ConcurrentInputs ==
    {Context(cr, 3, l @@ m) :
        cr \in {CredentialsA, CredentialsB},
        l \in {EmptyObj,
               "langfuseMetadata" :> JObj(("sessionId" :> Text("session-1"))
                                             @@ ("metadata" :> JStr(TextObjPrompt)))},
        m \in {EmptyObj, "responsesApiEnabled" :> JBool("true")}}
        \cup {Context(CredentialsA, 3, "langfuseMetadata" :> JObj("metadata" :> JStr(TextNull))),
              Context(CredentialsB, 3,
                      ("responsesApiEnabled" :> JBool("true"))
                          @@ ("options" :> JObj("metadata" :> JStr(TextUnclosed))))}

(***************************************************************************)
(* supplyData: the steps of one invocation. The only await is the          *)
(* credential fetch of line 605; the rest of the body runs to its end      *)
(* without giving up control.                                              *)
(***************************************************************************)
NoContext == [credentials |-> EmptyObj, typeVersion |-> 0, params |-> EmptyObj]

\* Lines 604-605, with the telemetry SDK started before the credentials are
\* awaited.
Call_StartsBeforeCredentials(i, c) ==
    /\ pc[i] = "idle"
    /\ pc' = [pc EXCEPT ![i] = "awaitCredentials"]
    /\ ctx' = [ctx EXCEPT ![i] = c]
    /\ sdkStarted' = Append(sdkStarted, NodeSDK(i, c))
    /\ UNCHANGED ret
    /\ UNCHANGED adapterVars

\* The engine calls supplyData: line 605 starts the credential fetch.
Call(i, c) ==
    /\ pc[i] = "idle"
    /\ pc' = [pc EXCEPT ![i] = "awaitCredentials"]
    /\ ctx' = [ctx EXCEPT ![i] = c]
    /\ UNCHANGED <<ret, sdkStarted>>
    /\ UNCHANGED adapterVars

\* The credentials arrive: lines 607-807 run.
CredentialsResolve(i) ==
    /\ pc[i] = "awaitCredentials"
    /\ ret' = [ret EXCEPT ![i] = supplyDataBody(i, ctx[i])]
    /\ pc' = [pc EXCEPT ![i] = ret'[i].status]
    /\ sdkStarted' = IF ret'[i].started
                     THEN Append(sdkStarted, NodeSDK(i, ctx[i]))
                     ELSE sdkStarted
    /\ UNCHANGED ctx
    /\ UNCHANGED adapterVars

\* The credential fetch fails: the await of line 605 throws.
CredentialsReject(i) ==
    /\ pc[i] = "awaitCredentials"
    /\ ret' = [ret EXCEPT ![i] = [NoRet EXCEPT !.status = "threw", !.error = "getCredentials"]]
    /\ pc' = [pc EXCEPT ![i] = "threw"]
    /\ UNCHANGED <<ctx, sdkStarted>>
    /\ UNCHANGED adapterVars

InitSupply ==
    /\ pc = [i \in Inv |-> "idle"]
    /\ ctx = [i \in Inv |-> NoContext]
    /\ ret = [i \in Inv |-> NoRet]
    /\ sdkStarted = <<>>

InitAdapter ==
    /\ output = JUndef
    /\ call = NoCall
    /\ superCalls = <<>>
    /\ hpc = "idle"
    /\ superSettled = ""
    /\ thrown = ""
    /\ calls = 0

Init == InitAdapter /\ InitSupply

\* One invocation, over every input.
Invoke == \E c \in Inputs : Call(1, c)
Resolve == CredentialsResolve(1)
Reject == CredentialsReject(1)

Next == Invoke \/ Resolve \/ Reject

Spec == Init /\ [][Next]_vars

\* The engine invokes supplyData for several items at once.
InvokeAny == \E i \in Inv, c \in ConcurrentInputs : Call(i, c)
ResolveAny == \E i \in Inv : CredentialsResolve(i)
RejectAny == \E i \in Inv : CredentialsReject(i)

NextConcurrent == InvokeAny \/ ResolveAny \/ RejectAny

SpecConcurrent == Init /\ [][NextConcurrent]_vars

\* The engine runs supplyData again and again, one run at a time; the model
\* keeps the outcome of an ended run until it lets go of it, which frees the
\* place for a later run.
MaxRuns == 3

RunInputs ==
    {Context(CredentialsA, 3, o @@ m @@ tl) :
        o \in {EmptyObj,
               "options" :> JObj(("temperature" :> JNum("0.9"))
                                    @@ ("reasoningEffort" :> Text("low"))
                                    @@ ("serviceTier" :> Text("auto")))},
        m \in {EmptyObj, "responsesApiEnabled" :> JBool("true")},
        tl \in {EmptyObj, "builtInTools" :> JObj("codeInterpreter" :> JBool("true")),
                "langfuseMetadata" :> JObj("sessionId" :> Text("session-1"))}}

Release(i) ==
    /\ pc[i] \in {"returned", "threw"}
    /\ Len(sdkStarted) < MaxRuns
    /\ pc' = [pc EXCEPT ![i] = "idle"]
    /\ ctx' = [ctx EXCEPT ![i] = NoContext]
    /\ ret' = [ret EXCEPT ![i] = NoRet]
    /\ UNCHANGED sdkStarted
    /\ UNCHANGED adapterVars

InvokeRun ==
    /\ \A j \in Inv : pc[j] # "awaitCredentials"
    /\ \E i \in Inv, c \in RunInputs : Call(i, c)
ReleaseAny == \E i \in Inv : Release(i)

NextRuns == InvokeRun \/ ResolveAny \/ ReleaseAny

SpecRuns == Init /\ [][NextRuns]_vars

\* The chat client's end-of-generation events reaching the wrapper.
NextAdapter == LLMEnd \/ LLMEndAgain \/ SuperResolves \/ SuperRejects

SpecAdapter == Init /\ [][NextAdapter]_vars

(***************************************************************************)
(* Claims about the adapter                                                *)
(***************************************************************************)
LastSuperCall == superCalls[Len(superCalls)]

EstOf(o) == OptGet(Get(o.kids, "llmOutput"), "estimatedTokenUsage")
TokOf(o) == OptGet(Get(o.kids, "llmOutput"), "tokenUsage")

\* C1: when the result a handleLLMEnd invocation received carries an
\* estimatedTokenUsage (a usage value, i.e. truthy) and has no tokenUsage,
\* then what super.handleLLMEnd received in that invocation is the same result
\* object, already holding tokenUsage = estimatedTokenUsage (and is the state
\* the object is now in), with the runId and parentRunId the wrapper received.
C1_MapThenDelegate ==
    (calls > 0 /\ Truthy(EstOf(call.output)) /\ TokOf(call.output).t = "undefined")
        => /\ Len(superCalls) = calls
           /\ TokOf(LastSuperCall.output) = EstOf(call.output)
           /\ TokOf(output) = EstOf(call.output)
           /\ LastSuperCall.output = output
           /\ LastSuperCall.runId = call.runId
           /\ LastSuperCall.parentRunId = call.parentRunId

C1_Witness ==
    /\ calls > 0
    /\ EstOf(call.output) = Usage5
    /\ TokOf(call.output).t = "undefined"
    /\ TokOf(LastSuperCall.output) = Usage5
    /\ hpc = "resolved"

\* C2 (as stated): when tokenUsage is present whatever its value, or
\* estimatedTokenUsage is absent, or llmOutput is absent, the result object is
\* not mutated and super.handleLLMEnd receives it unchanged with the same ids.
C2_Original ==
    (calls > 0 /\ (\/ TokOf(call.output).t # "undefined"
                   \/ EstOf(call.output).t = "undefined"
                   \/ "llmOutput" \notin DOMAIN call.output.kids))
        => /\ output = call.output
           /\ Len(superCalls) = calls
           /\ LastSuperCall = call

\* C2 (amended): when tokenUsage is present with a truthy value, or
\* estimatedTokenUsage is absent or falsy, or llmOutput is absent, the result
\* object is not mutated and super.handleLLMEnd is still called with the
\* unchanged result, runId and parentRunId.
C2_NoMutation ==
    (calls > 0 /\ (\/ Truthy(TokOf(call.output))
                   \/ ~Truthy(EstOf(call.output))
                   \/ "llmOutput" \notin DOMAIN call.output.kids))
        => /\ output = call.output
           /\ Len(superCalls) = calls
           /\ LastSuperCall = call

C2_Witness ==
    /\ calls > 0
    /\ TokOf(call.output) = Usage7
    /\ EstOf(call.output) = Usage5
    /\ output = call.output
    /\ LastSuperCall = call

(***************************************************************************)
(* Claims about supplyData                                                 *)
(***************************************************************************)
\* What invocation i was handed, read from its parameters.
OptionsOf(i) ==
    IF "options" \in DOMAIN ctx[i].params THEN ctx[i].params["options"].kids ELSE EmptyObj
LangfuseOf(i) ==
    IF "langfuseMetadata" \in DOMAIN ctx[i].params
    THEN ctx[i].params["langfuseMetadata"].kids ELSE EmptyObj
ToolsOf(i) ==
    IF "builtInTools" \in DOMAIN ctx[i].params
    THEN ctx[i].params["builtInTools"].kids ELSE EmptyObj
AlternateMode(i) ==
    /\ "responsesApiEnabled" \in DOMAIN ctx[i].params
    /\ ctx[i].params["responsesApiEnabled"] = JBool("true")

\* The body of invocation i ran (the credentials arrived) and has ended.
BodyRan(i) == pc[i] \in {"returned", "threw"} /\ ret[i].error # "getCredentials"
Returned(i) == pc[i] = "returned"
\* The body got as far as the Parameter Mapper's two outputs.
Mapped(i) == Returned(i) \/ (pc[i] = "threw" /\ ret[i].error = "jsonParse: builtInTools")

\* C3: the Direct Fields hold only allow-listed keys; every allow-listed key
\* of the Options Record is there with the record's value (and reaches the
\* constructor fields with it), every other key of the record is dropped.
C3_DirectFieldsAllowList ==
    \A i \in Inv :
        Mapped(i) =>
            /\ DOMAIN ret[i].includedOptions \subseteq AllowList
            /\ \A k \in DOMAIN OptionsOf(i) :
                IF k \in AllowList
                THEN /\ k \in DOMAIN ret[i].includedOptions
                     /\ ret[i].includedOptions[k] = OptionsOf(i)[k]
                     /\ Returned(i) => ret[i].response.fields[k] = OptionsOf(i)[k]
                ELSE k \notin DOMAIN ret[i].includedOptions

C3_Witness ==
    /\ Returned(1)
    /\ DOMAIN OptionsOf(1) = {"temperature", "serviceTier"}
    /\ ret[1].includedOptions = ("temperature" :> JNum("0.9"))

\* C4: with the Responses API off, modelKwargs hold no key but
\* response_format and reasoning_effort; response_format is there exactly
\* when the record holds a response format, and is then { type: format };
\* with neither option in the record modelKwargs are the empty object.
C4_LegacyKwargs ==
    \A i \in Inv :
        (Mapped(i) /\ ~AlternateMode(i)) =>
            /\ DOMAIN ret[i].modelKwargs \subseteq {"response_format", "reasoning_effort"}
            /\ "response_format" \in DOMAIN ret[i].modelKwargs
                   <=> "responseFormat" \in DOMAIN OptionsOf(i)
            /\ "responseFormat" \in DOMAIN OptionsOf(i) =>
                   ret[i].modelKwargs["response_format"]
                       = JObj("type" :> OptionsOf(i)["responseFormat"])
            /\ DOMAIN OptionsOf(i) \cap {"responseFormat", "reasoningEffort"} = {} =>
                   ret[i].modelKwargs = EmptyObj

C4_Witness ==
    /\ Returned(1)
    /\ ~AlternateMode(1)
    /\ DOMAIN OptionsOf(1) = {"responseFormat", "metadata"}
    /\ ret[1].modelKwargs = ("response_format" :> JObj("type" :> Text("json_object")))

\* C5: reasoning_effort is among the modelKwargs exactly when the record's
\* reasoning effort is "low", "medium" or "high" (and then holds that value);
\* any other string gives no reasoning_effort key, and the invocation still
\* returns (no other option of the record making it throw).
C5_ReasoningEffortGate ==
    \A i \in Inv :
        /\ Mapped(i) =>
            /\ "reasoning_effort" \in DOMAIN ret[i].modelKwargs
                   <=> /\ "reasoningEffort" \in DOMAIN OptionsOf(i)
                       /\ OptionsOf(i)["reasoningEffort"]
                              \in {Text("low"), Text("medium"), Text("high")}
            /\ "reasoning_effort" \in DOMAIN ret[i].modelKwargs =>
                   ret[i].modelKwargs["reasoning_effort"] = OptionsOf(i)["reasoningEffort"]
        /\ (BodyRan(i) /\ "reasoningEffort" \in DOMAIN OptionsOf(i)
                /\ "metadata" \notin DOMAIN OptionsOf(i)) => Returned(i)

C5_Witness ==
    /\ Returned(1)
    /\ ~AlternateMode(1)
    /\ OptionsOf(1) = ("reasoningEffort" :> Text("LOW"))
    /\ ret[1].modelKwargs = EmptyObj

\* C6 (as stated): whenever timeout, retry count or temperature is absent
\* from the record, the constructor fields carry timeout = 60000,
\* maxRetries = 2 and temperature = 0.7, none of them undefined.
C6_Original ==
    \A i \in Inv :
        Returned(i) =>
            /\ "timeout" \notin DOMAIN OptionsOf(i) =>
                   Get(ret[i].response.fields, "timeout") = JNum("60000")
            /\ "maxRetries" \notin DOMAIN OptionsOf(i) =>
                   Get(ret[i].response.fields, "maxRetries") = JNum("2")
            /\ "temperature" \notin DOMAIN OptionsOf(i) =>
                   Get(ret[i].response.fields, "temperature") = JNum("0.7")

\* C6 (amended): an absent timeout becomes 60000 and an absent retry count 2
\* (a present one is passed as it is), so neither field is ever undefined;
\* temperature gets no default: the fields hold it exactly when the record
\* does, with the record's value.
C6_Defaults ==
    \A i \in Inv :
        Returned(i) =>
            /\ Get(ret[i].response.fields, "timeout")
                   = IF "timeout" \in DOMAIN OptionsOf(i)
                     THEN OptionsOf(i)["timeout"] ELSE JNum("60000")
            /\ Get(ret[i].response.fields, "maxRetries")
                   = IF "maxRetries" \in DOMAIN OptionsOf(i)
                     THEN OptionsOf(i)["maxRetries"] ELSE JNum("2")
            /\ Get(ret[i].response.fields, "temperature")
                   = IF "temperature" \in DOMAIN OptionsOf(i)
                     THEN OptionsOf(i)["temperature"] ELSE JUndef

C6_Witness ==
    /\ Returned(1)
    /\ DOMAIN OptionsOf(1) = {"maxRetries"}
    /\ ret[1].response.fields["timeout"] = JNum("60000")
    /\ ret[1].response.fields["maxRetries"] = JNum("0")
    /\ "temperature" \notin DOMAIN ret[1].response.fields

\* What an invocation produced, apart from the identity of the objects it
\* created.
Produced(i) ==
    <<ret[i].status, ret[i].error, ret[i].started, ret[i].metadata, ret[i].lfHandler.args,
      ret[i].includedOptions, ret[i].modelKwargs, ret[i].response.metadata,
      [k \in DOMAIN ret[i].response.fields \ {"callbacks"} |-> ret[i].response.fields[k]]>>

\* The invocations that have written the process-wide telemetry state.
Starters == {sdkStarted[n].by : n \in 1..Len(sdkStarted)}

C8_StartedOnce ==
    /\ Len(sdkStarted) <= 1
    /\ \A i \in Inv : ret[i].started => sdkStarted = <<NodeSDK(sdkStarted[1].by, ctx[sdkStarted[1].by])>>

\* The text handed to the metadata parse of lines 627-638.
SourceOf(i) ==
    IF Truthy(Get(LangfuseOf(i), "metadata"))
    THEN Get(LangfuseOf(i), "metadata")
    ELSE Get(LangfuseOf(i), "customMetadata")

Blank(u) == \A n \in 1..Len(u) : u[n] \in Whitespace

\* C9: a metadata text that is not JSON never aborts supplyData: the parse
\* error is caught, the metadata are { _raw: <the text> } and the invocation
\* returns; an empty or all-blank text gives the empty object.
C9_MetadataParseFallback ==
    \A i \in Inv :
        (BodyRan(i) /\ ~AlternateMode(i)) =>
            /\ (SourceOf(i).t = "str" /\ ~Blank(SourceOf(i).s) /\ ~jsonParse(SourceOf(i).s).ok)
                   => /\ Returned(i)
                      /\ ret[i].metadata = JObj("_raw" :> SourceOf(i))
                      /\ ret[i].response.fields["metadata"]["_raw"] = SourceOf(i)
            /\ (SourceOf(i).t = "str" /\ Blank(SourceOf(i).s))
                   => Returned(i) /\ ret[i].metadata = JObj(EmptyObj)
            /\ (/\ Get(LangfuseOf(i), "metadata").t = "str"
                /\ Get(LangfuseOf(i), "metadata").s = <<>>
                /\ "customMetadata" \notin DOMAIN LangfuseOf(i))
                   => Returned(i) /\ ret[i].metadata = JObj(EmptyObj)

C9_Witness ==
    /\ Returned(1)
    /\ Get(LangfuseOf(1), "metadata") = JStr(TextUnclosed)
    /\ ret[1].metadata = JObj("_raw" :> JStr(TextUnclosed))

C9_WitnessBlank ==
    /\ Returned(1)
    /\ Get(LangfuseOf(1), "metadata") = JStr(<<" ", " ">>)
    /\ ret[1].metadata = JObj(EmptyObj)

\* A json-typed field that holds a text which is not JSON.
Malformed(v) == v.t = "str" /\ v.s # <<>> /\ ~jsonParse(v.s).ok

\* C10: in alternate mode a malformed options metadata, or malformed
\* file-search filters or vector store ids, is not caught: supplyData throws
\* the parse error, returns no chat client, and no fallback value stands in
\* for the field.
C10_ParseErrorsPropagate ==
    \A i \in Inv :
        (BodyRan(i) /\ AlternateMode(i)) =>
            /\ Malformed(Get(OptionsOf(i), "metadata"))
                   => /\ pc[i] = "threw"
                      /\ ret[i].error = "jsonParse: options"
                      /\ ret[i].response = NoModel
                      /\ ret[i].modelKwargs = EmptyObj
            /\ (/\ "fileSearch" \in DOMAIN ToolsOf(i)
                /\ \/ Malformed(PropOf(ToolsOf(i)["fileSearch"], "vectorStoreIds"))
                   \/ Malformed(PropOf(ToolsOf(i)["fileSearch"], "filters")))
                   => /\ pc[i] = "threw"
                      /\ ret[i].response = NoModel

C10_Witness ==
    /\ pc[1] = "threw"
    /\ AlternateMode(1)
    /\ Malformed(PropOf(Get(ToolsOf(1), "fileSearch"), "filters"))
    /\ ret[1].error = "jsonParse: builtInTools"
    /\ ret[1].started

C10_WitnessOptions ==
    /\ pc[1] = "threw"
    /\ AlternateMode(1)
    /\ Get(OptionsOf(1), "metadata") = JStr(TextUnclosed)
    /\ ret[1].error = "jsonParse: options"

\* The Extra Parameters the other branch of lines 706-716 computes from the
\* Options Record of invocation i, and whether that branch completes (the
\* alternate one throws on a metadata option that is not JSON).
OtherBranch(i) ==
    IF AlternateMode(i)
    THEN LegacyKwargs(OptionsOf(i))
    ELSE prepareAdditionalResponsesParams(OptionsOf(i)).v
OtherBranchCompletes(i) ==
    AlternateMode(i) \/ prepareAdditionalResponsesParams(OptionsOf(i)).ok

AlternateKeys ==
    {"conversation", "metadata", "prompt_cache_key", "reasoning_effort", "safety_identifier",
     "service_tier", "top_logprobs"}
LegacyKeys == {"response_format", "reasoning_effort"}

\* C11: the two branches that build the Extra Parameters are a strict
\* either/or: each invocation populates keys of its own branch only, a key
\* one branch populates for an Options Record is not populated by the other
\* branch for that record, except reasoning_effort, which both branches
\* (where both complete) populate or omit alike and with the same value.
C11_EitherOr ==
    \A i \in Inv :
        Mapped(i) =>
            /\ DOMAIN ret[i].modelKwargs
                   \subseteq (IF AlternateMode(i) THEN AlternateKeys ELSE LegacyKeys)
            /\ (DOMAIN ret[i].modelKwargs) \cap (DOMAIN OtherBranch(i)) \subseteq {"reasoning_effort"}
            /\ OtherBranchCompletes(i) =>
                   Get(ret[i].modelKwargs, "reasoning_effort")
                       = Get(OtherBranch(i), "reasoning_effort")

C11_Witness ==
    /\ Returned(1)
    /\ AlternateMode(1)
    /\ OptionsOf(1) = ("reasoningEffort" :> Text("low")) @@ ("serviceTier" :> Text("auto"))
    /\ ret[1].modelKwargs = ("reasoning_effort" :> Text("low")) @@ ("service_tier" :> Text("auto"))
    /\ OtherBranch(1) = ("reasoning_effort" :> Text("low"))

C11_WitnessLegacy ==
    /\ Returned(1)
    /\ ~AlternateMode(1)
    /\ OptionsOf(1) = ("reasoningEffort" :> Text("high")) @@ ("responseFormat" :> Text("text"))
    /\ DOMAIN ret[1].modelKwargs = LegacyKeys

\* The tool descriptors formatted from the selection invocation i was handed.
ToolListOf(i) == formatBuiltInTools(ToolsOf(i))

\* C12: the tool descriptors are attached after the construction: the
\* metadata the constructor received hold no tools; with the Responses API on
\* and a non-empty formatted list, the returned instance's metadata hold
\* tools = that list and every other key as constructed; with an empty list,
\* or with the Responses API off (where the selection is not even formatted,
\* so a malformed one cannot throw), the instance's metadata are the
\* constructed ones.
C12_ToolsAfterConstruction ==
    \A i \in Inv :
        /\ Returned(i) =>
            LET built == ret[i].response.fields["metadata"]
                now == ret[i].response.metadata
            IN  /\ "tools" \notin DOMAIN built
                /\ (AlternateMode(i) /\ Len(ToolListOf(i).v) > 0) =>
                       /\ DOMAIN now = (DOMAIN built) \cup {"tools"}
                       /\ now["tools"] = ArrOf(ToolListOf(i).v)
                       /\ \A k \in DOMAIN built : now[k] = built[k]
                /\ (AlternateMode(i) /\ Len(ToolListOf(i).v) = 0) => now = built
                /\ ~AlternateMode(i) => now = built
        /\ (BodyRan(i) /\ ~AlternateMode(i)) => ret[i].error # "jsonParse: builtInTools"

C12_Witness ==
    /\ Returned(1)
    /\ AlternateMode(1)
    /\ Len(ToolListOf(1).v) = 2
    /\ DOMAIN ret[1].response.fields["metadata"] = {"project", "session.id", "sessionId"}
    /\ DOMAIN ret[1].response.metadata = {"project", "session.id", "sessionId", "tools"}

C12_WitnessDisabled ==
    /\ Returned(1)
    /\ ~AlternateMode(1)
    /\ ~ToolListOf(1).ok
    /\ ret[1].response.metadata = ret[1].response.fields["metadata"]

\* C13: the chat client is constructed with exactly two callbacks, in this
\* order: the Langfuse handler this invocation built from its own context,
\* then this invocation's N8nLlmTracing; in both modes, for every Options
\* Record.
C13_CallbackList ==
    \A i \in Inv :
        Returned(i) =>
            LET cb == ret[i].response.fields["callbacks"]
            IN  /\ Len(cb) = 2
                /\ cb[1] = ret[i].lfHandler
                /\ cb[1].kind = "CallbackHandler"
                /\ cb[1].by = i
                /\ cb[1].args = CallbackHandlerArgs(ctx[i])
                /\ cb[2].kind = "N8nLlmTracing"
                /\ cb[2].by = i

C13_Witness ==
    /\ Returned(1)
    /\ AlternateMode(1)
    /\ DOMAIN OptionsOf(1) = {"temperature", "topLogprobs"}
    /\ ret[1].response.fields["callbacks"][1].kind = "CallbackHandler"
    /\ ret[1].response.fields["callbacks"][2].kind = "N8nLlmTracing"

C13_WitnessLegacy ==
    /\ Returned(1)
    /\ ~AlternateMode(1)
    /\ Get(LangfuseOf(1), "sessionId") = Text("session-1")
    /\ ret[1].response.fields["callbacks"][1].args["sessionId"] = Text("session-1")

\* What an invocation whose credential fetch failed is left with.
CredentialFailure == [NoRet EXCEPT !.status = "threw", !.error = "getCredentials"]

\* C14: until its credential fetch has completed an invocation has read no
\* parameter, started no telemetry SDK and constructed neither the handler
\* nor the chat client; when the fetch fails the invocation throws that
\* failure and none of those steps ever happens for it.
C14_CredentialsFirst ==
    \A i \in Inv :
        /\ pc[i] \in {"idle", "awaitCredentials"} =>
            /\ ret[i] = NoRet
            /\ i \notin Starters
        /\ ret[i].read # {} => BodyRan(i)
        /\ (ret[i].started \/ ret[i].lfHandler # NoHandler \/ ret[i].response # NoModel)
               => BodyRan(i)
        /\ ret[i].error = "getCredentials" =>
            /\ pc[i] = "threw"
            /\ ret[i] = CredentialFailure
            /\ i \notin Starters

C14_Witness ==
    /\ pc[1] = "threw"
    /\ ret[1] = CredentialFailure
    /\ Returned(2)
    /\ Starters = {2}
    /\ ret[2].read = ParametersRead(ctx[2])

C14_WitnessAwaiting ==
    /\ pc[1] = "awaitCredentials"
    /\ ret[1] = NoRet
    /\ Returned(2)

\* The value the handler is to get for a session or user id: the id when it
\* is a non-empty string, undefined otherwise.
IdOrUndefined(v) == IF v.t = "str" /\ v.s # <<>> THEN v ELSE JUndef

\* The tag lists of the tags strings, written out.
ExpectedTags(text) ==
    CASE text = <<"a", ",", " ", "b", ",">> -> ArrOf(<<Text("a"), Text("b")>>)
      [] text = <<" ", "b", " ", "c", " ", ",", ",", "a">> ->
            ArrOf(<<JStr(<<"b", " ", "c">>), Text("a")>>)
      [] OTHER -> JUndef

\* C15: the Langfuse handler is constructed with sessionId and userId equal
\* to the invocation's ids when these are non-empty and undefined when they
\* are empty or absent, and with tags the list of the trimmed non-empty
\* segments of the comma-separated tags string in their order (no element is
\* empty, starts or ends with a blank, or holds a comma), undefined when no
\* segment is left.
C15_HandlerContext ==
    \A i \in Inv :
        ret[i].lfHandler # NoHandler =>
            LET a == ret[i].lfHandler.args
                t == a["tags"]
            IN  /\ a["sessionId"] = IdOrUndefined(Get(LangfuseOf(i), "sessionId"))
                /\ a["userId"] = IdOrUndefined(Get(LangfuseOf(i), "userId"))
                /\ t = ExpectedTags(Get(LangfuseOf(i), "tags").s)
                /\ t.t = "arr" =>
                    /\ DOMAIN t.kids # {}
                    /\ \A k \in DOMAIN t.kids :
                        /\ t.kids[k].t = "str"
                        /\ t.kids[k].s # <<>>
                        /\ \A n \in 1..Len(t.kids[k].s) : t.kids[k].s[n] # ","
                        /\ t.kids[k].s[1] \notin Whitespace
                        /\ t.kids[k].s[Len(t.kids[k].s)] \notin Whitespace

C15_Witness ==
    /\ Returned(1)
    /\ Get(LangfuseOf(1), "tags") = JStr(<<" ", "b", " ", "c", " ", ",", ",", "a">>)
    /\ Get(LangfuseOf(1), "sessionId") = JStr(<<>>)
    /\ Get(LangfuseOf(1), "userId") = Text("user-1")
    /\ ret[1].lfHandler.args["tags"] = ArrOf(<<JStr(<<"b", " ", "c">>), Text("a")>>)
    /\ ret[1].lfHandler.args["sessionId"] = JUndef
    /\ ret[1].lfHandler.args["userId"] = Text("user-1")

C15_WitnessNoTags ==
    /\ Returned(1)
    /\ Get(LangfuseOf(1), "tags") = JStr(<<" ", ",">>)
    /\ ret[1].lfHandler.args["tags"] = JUndef

\* C16: whenever the parsed Langfuse metadata hold a langfusePrompt entry,
\* the metadata the chat client is constructed with hold langfusePrompt with
\* exactly that value, in both modes, whatever the session id, user id and
\* tags.
C16_PromptLinked ==
    \A i \in Inv :
        (Returned(i) /\ "langfusePrompt" \in DOMAIN ret[i].metadata.kids) =>
            /\ "langfusePrompt" \in DOMAIN ret[i].response.fields["metadata"]
            /\ ret[i].response.fields["metadata"]["langfusePrompt"]
                   = ret[i].metadata.kids["langfusePrompt"]

C16_Witness ==
    /\ Returned(1)
    /\ AlternateMode(1)
    /\ Get(LangfuseOf(1), "metadata") = JStr(TextObjPromptObject)
    /\ Get(LangfuseOf(1), "sessionId") = Text("session-1")
    /\ Get(LangfuseOf(1), "tags") = JStr(<<"a", ",", " ", "b", ",">>)
    /\ ret[1].response.fields["metadata"]["langfusePrompt"] = JObj("project" :> JNum("1"))

C16_WitnessFalsy ==
    /\ Returned(1)
    /\ Get(LangfuseOf(1), "metadata") = JStr(TextObjPromptNull)
    /\ ret[1].response.fields["metadata"]["langfusePrompt"] = JNull

C16_WitnessLegacyField ==
    /\ Returned(1)
    /\ "metadata" \notin DOMAIN LangfuseOf(1)
    /\ "customMetadata" \in DOMAIN LangfuseOf(1)
    /\ Get(ret[1].response.fields["metadata"], "langfusePrompt")
           = JObj("name" :> Text("prompt-2"))

\* C17: from node version 3 on the model identifier the chat client gets is
\* the value of the resource locator (parameter model.value), below version
\* 3 it is the plain string parameter model; an invocation reads exactly one
\* of the two parameters.
C17_ModelIdentifier ==
    \A i \in Inv :
        Returned(i) =>
            /\ Cardinality(ret[i].read \cap {"model", "model.value"}) = 1
            /\ IF ctx[i].typeVersion >= 3
               THEN /\ "model.value" \in ret[i].read
                    /\ ret[i].response.fields["model"] = ctx[i].params["model"].kids["value"]
               ELSE /\ "model" \in ret[i].read
                    /\ ret[i].response.fields["model"] = ctx[i].params["model"]

C17_Witness ==
    /\ Returned(1)
    /\ ctx[1].typeVersion = 3
    /\ ret[1].response.fields["model"] = Text("gpt-4.1-mini")
    /\ "model.value" \in ret[1].read

C17_WitnessLegacy ==
    /\ Returned(1)
    /\ ctx[1].typeVersion = 2
    /\ ret[1].response.fields["model"] = Text("gpt-4o-mini")
    /\ "model" \in ret[1].read

\* Two invocations were handed the same Parameter Mapper inputs.
SameMapperInputs(i, j) ==
    /\ OptionsOf(i) = OptionsOf(j)
    /\ AlternateMode(i) = AlternateMode(j)
    /\ ToolsOf(i) = ToolsOf(j)

C19_FailurePropagates ==
    /\ Len(superCalls) = calls
    /\ superSettled \in Errors => (hpc = "rejected" /\ thrown = superSettled)
    /\ hpc = "rejected" => (superSettled \in Errors /\ thrown = superSettled)
    /\ hpc = "resolved" => (superSettled = "fulfilled" /\ thrown = "")

C19_Witness ==
    /\ calls = 2
    /\ Len(superCalls) = 2
    /\ hpc = "rejected"
    /\ superSettled = "NetworkError"
    /\ thrown = "NetworkError"

\* The llmOutput of a result (an object without properties when absent).
LlmOutputOf(o) == Get(o.kids, "llmOutput")

\* C20: in every invocation of handleLLMEnd the result keeps all its fields
\* (the generations among them) and its llmOutput keeps all of its own,
\* estimatedTokenUsage included; only llmOutput.tokenUsage may differ from
\* what was received, and then it is the estimatedTokenUsage; the wrapped
\* handler receives the result in that state with the runId and parentRunId
\* the adapter received.
C20_OnlyTokenUsage ==
    calls > 0 =>
        /\ DOMAIN output.kids = DOMAIN call.output.kids
        /\ \A k \in (DOMAIN call.output.kids) \ {"llmOutput"} : output.kids[k] = call.output.kids[k]
        /\ LlmOutputOf(output).t = LlmOutputOf(call.output).t
        /\ (DOMAIN LlmOutputOf(call.output).kids) \subseteq (DOMAIN LlmOutputOf(output).kids)
        /\ (DOMAIN LlmOutputOf(output).kids)
               \subseteq (DOMAIN LlmOutputOf(call.output).kids) \cup {"tokenUsage"}
        /\ \A k \in (DOMAIN LlmOutputOf(call.output).kids) \ {"tokenUsage"} :
               LlmOutputOf(output).kids[k] = LlmOutputOf(call.output).kids[k]
        /\ TokOf(output) \in {TokOf(call.output), EstOf(call.output)}
        /\ LastSuperCall.output = output
        /\ LastSuperCall.runId = call.runId
        /\ LastSuperCall.parentRunId = call.parentRunId

C20_Witness ==
    /\ calls > 0
    /\ EstOf(call.output) = Usage7
    /\ TokOf(call.output) = JNull
    /\ output # call.output
    /\ EstOf(output) = Usage7
    /\ TokOf(output) = Usage7
    /\ output.kids["generations"] = Generations
    /\ LlmOutputOf(output).kids["model_name"] = JStr(<<"gpt-4.1-mini">>)
    /\ LastSuperCall.parentRunId = JStr(<<"parent-1">>)

(***************************************************************************)
(* Further claims about supplyData                                         *)
(***************************************************************************)
\* The allowed-domains string of the web search invocation i was handed.
DomainsTextOf(i) == PropOf(Get(ToolsOf(i), "webSearch"), "allowedDomains").s

\* The domain lists of the allowed-domains strings, written out.
ExpectedDomains(text) ==
    CASE text = <<"google.com", ",", " ", "wikipedia.org">> ->
            ArrOf(<<Text("google.com"), Text("wikipedia.org")>>)
      [] text = <<"a", ",", " ", "b", ",">> -> ArrOf(<<Text("a"), Text("b")>>)
      [] OTHER -> ArrOf(<<>>)

\* C21: the web-search descriptor's allowed domains are the trimmed,
\* non-empty segments of the comma-separated string in their order:
\* "google.com, wikipedia.org" gives [google.com, wikipedia.org], the empty
\* string the empty list, and a trailing comma no empty entry.
C21_AllowedDomains ==
    \A i \in Inv :
        (Returned(i) /\ AlternateMode(i) /\ "webSearch" \in DOMAIN ToolsOf(i)) =>
            LET tool == ret[i].response.metadata["tools"].kids["0"]
                d == tool.kids["allowed_domains"]
            IN  /\ tool.kids["type"] = JStr(<<"web_search">>)
                /\ d = ExpectedDomains(DomainsTextOf(i))
                /\ \A k \in DOMAIN d.kids :
                    /\ d.kids[k].s # <<>>
                    /\ \A n \in 1..Len(d.kids[k].s) : d.kids[k].s[n] \notin Whitespace \cup {","}

C21_Witness ==
    /\ Returned(1)
    /\ AlternateMode(1)
    /\ "webSearch" \in DOMAIN ToolsOf(1)
    /\ DomainsTextOf(1) = <<"google.com", ",", " ", "wikipedia.org">>
    /\ ret[1].response.metadata["tools"].kids["0"].kids["allowed_domains"]
           = ArrOf(<<Text("google.com"), Text("wikipedia.org")>>)

C21_WitnessTrailingComma ==
    /\ Returned(1)
    /\ AlternateMode(1)
    /\ "webSearch" \in DOMAIN ToolsOf(1)
    /\ DomainsTextOf(1) = <<"a", ",", " ", "b", ",">>
    /\ ret[1].response.metadata["tools"].kids["0"].kids["allowed_domains"]
           = ArrOf(<<Text("a"), Text("b")>>)

C21_WitnessEmpty ==
    /\ Returned(1)
    /\ AlternateMode(1)
    /\ "webSearch" \in DOMAIN ToolsOf(1)
    /\ "allowedDomains" \in DOMAIN ToolsOf(1)["webSearch"].kids
    /\ DomainsTextOf(1) = <<>>
    /\ ret[1].response.metadata["tools"].kids["0"].kids["allowed_domains"] = ArrOf(<<>>)

\* A string that is set and not empty.
NonEmpty(v) == v.t = "str" /\ v.s # <<>>

\* C22: the network configuration's baseURL is the options' baseURL when
\* that is non-empty, even when the credentials hold a url; otherwise the
\* credentials' url when that is non-empty; with neither the configuration
\* has no baseURL key.
C22_BaseUrlPrecedence ==
    \A i \in Inv :
        Returned(i) =>
            LET cfg == ret[i].response.fields["configuration"]
                fromOptions == Get(OptionsOf(i), "baseURL")
                fromCredentials == Get(ctx[i].credentials, "url")
            IN  IF NonEmpty(fromOptions) THEN cfg = ("baseURL" :> fromOptions)
                ELSE IF NonEmpty(fromCredentials) THEN cfg = ("baseURL" :> fromCredentials)
                ELSE cfg = EmptyObj

C22_Witness ==
    /\ Returned(1)
    /\ Get(ctx[1].credentials, "url") = Text("https://proxy.test/v1")
    /\ Get(OptionsOf(1), "baseURL") = Text("https://example.test/v1")
    /\ ret[1].response.fields["configuration"] = ("baseURL" :> Text("https://example.test/v1"))

C22_WitnessCredentials ==
    /\ Returned(1)
    /\ Get(OptionsOf(1), "baseURL") = JStr(<<>>)
    /\ ret[1].response.fields["configuration"] = ("baseURL" :> Text("https://proxy.test/v1"))

C22_WitnessNeither ==
    /\ Returned(1)
    /\ Get(ctx[1].credentials, "url") = JStr(<<>>)
    /\ Get(OptionsOf(1), "baseURL") = JStr(<<>>)
    /\ ret[1].response.fields["configuration"] = EmptyObj

\* C23: the constructor fields hold useResponsesApi = true and
\* outputVersion = "responses/v1" exactly when the responsesApiEnabled
\* parameter is true; when it is false or absent neither key is there.
C23_ResponsesApiFields ==
    \A i \in Inv :
        Returned(i) =>
            IF AlternateMode(i)
            THEN /\ Get(ret[i].response.fields, "useResponsesApi") = JBool("true")
                 /\ Get(ret[i].response.fields, "outputVersion") = JStr(<<"responses/v1">>)
            ELSE (DOMAIN ret[i].response.fields) \cap {"useResponsesApi", "outputVersion"} = {}

C23_Witness ==
    /\ Returned(1)
    /\ AlternateMode(1)
    /\ ret[1].response.fields["useResponsesApi"] = JBool("true")
    /\ ret[1].response.fields["outputVersion"] = JStr(<<"responses/v1">>)

C23_WitnessAbsent ==
    /\ Returned(1)
    /\ "responsesApiEnabled" \notin DOMAIN ctx[1].params
    /\ "useResponsesApi" \notin DOMAIN ret[1].response.fields

\* The Langfuse Context of invocation i as handed, the user's metadata as the
\* chat-client metadata receive them (line 730), and the tag list the
\* handler was given.
SessionOf(i) == Get(LangfuseOf(i), "sessionId")
UserOf(i) == Get(LangfuseOf(i), "userId")
UserMetadataOf(i) == SpreadValue(ret[i].metadata)
HandlerTagsOf(i) == ret[i].lfHandler.args["tags"]

\* The tags strings' lists joined by ",", written out.
ExpectedJoinedTags(text) ==
    CASE text = <<"a", ",", " ", "b", ",">> -> JStr(<<"a", ",", "b">>)
      [] text = <<" ", "b", " ", "c", " ", ",", ",", "a">> -> JStr(<<"b", " ", "c", ",", "a">>)
      [] OTHER -> JUndef

\* C24 (as stated): in the chat-client metadata 'session.id' and sessionId
\* are both present exactly when the session id is non-empty (and then equal
\* it), 'user.id' and userId likewise, 'langfuse.trace.tags' and tags exactly
\* when the tag list is non-empty (and then are the handler's list and that
\* list joined by ",").
C24_Original ==
    \A i \in Inv :
        Returned(i) =>
            LET md == ret[i].response.fields["metadata"]
            IN  /\ {"session.id", "sessionId"} \subseteq DOMAIN md <=> NonEmpty(SessionOf(i))
                /\ NonEmpty(SessionOf(i)) =>
                       (md["session.id"] = SessionOf(i) /\ md["sessionId"] = SessionOf(i))
                /\ {"user.id", "userId"} \subseteq DOMAIN md <=> NonEmpty(UserOf(i))
                /\ NonEmpty(UserOf(i)) =>
                       (md["user.id"] = UserOf(i) /\ md["userId"] = UserOf(i))
                /\ {"langfuse.trace.tags", "tags"} \subseteq DOMAIN md
                       <=> HandlerTagsOf(i).t = "arr"
                /\ HandlerTagsOf(i).t = "arr" =>
                       /\ md["langfuse.trace.tags"] = HandlerTagsOf(i)
                       /\ md["tags"] = ExpectedJoinedTags(Get(LangfuseOf(i), "tags").s)

\* C24 (amended): with a non-empty session id the chat-client metadata hold
\* 'session.id' and sessionId, both equal to it; with an empty one each of
\* the two keys is there only when the user's metadata hold it, with the
\* user's value. Likewise 'user.id' and userId for the user id, and
\* 'langfuse.trace.tags' (the list the handler was given) and tags (that
\* list joined by ",") for a non-empty tag list.
C24_AttributionKeys ==
    \A i \in Inv :
        Returned(i) =>
            LET md == ret[i].response.fields["metadata"]
                u == UserMetadataOf(i)
                Kept(keys) == \A k \in keys : /\ k \in DOMAIN md <=> k \in DOMAIN u
                                              /\ k \in DOMAIN u => md[k] = u[k]
            IN  /\ IF NonEmpty(SessionOf(i))
                   THEN Get(md, "session.id") = SessionOf(i) /\ Get(md, "sessionId") = SessionOf(i)
                   ELSE Kept({"session.id", "sessionId"})
                /\ IF NonEmpty(UserOf(i))
                   THEN Get(md, "user.id") = UserOf(i) /\ Get(md, "userId") = UserOf(i)
                   ELSE Kept({"user.id", "userId"})
                /\ IF HandlerTagsOf(i).t = "arr"
                   THEN /\ Get(md, "langfuse.trace.tags") = HandlerTagsOf(i)
                        /\ Get(md, "tags") = ExpectedJoinedTags(Get(LangfuseOf(i), "tags").s)
                   ELSE Kept({"langfuse.trace.tags", "tags"})

C24_Witness ==
    /\ Returned(1)
    /\ SessionOf(1) = Text("session-1")
    /\ "userId" \notin DOMAIN LangfuseOf(1)
    /\ "metadata" \notin DOMAIN LangfuseOf(1)
    /\ Get(LangfuseOf(1), "tags") = JStr(<<"a", ",", " ", "b", ",">>)
    /\ DOMAIN ret[1].response.fields["metadata"]
           = {"session.id", "sessionId", "langfuse.trace.tags", "tags"}
    /\ ret[1].response.fields["metadata"]["tags"] = JStr(<<"a", ",", "b">>)
    /\ ret[1].response.fields["metadata"]["langfuse.trace.tags"]
           = ret[1].lfHandler.args["tags"]

C24_WitnessUserKeys ==
    /\ Returned(1)
    /\ Get(LangfuseOf(1), "metadata") = JStr(TextObjAttribution)
    /\ ~NonEmpty(SessionOf(1))
    /\ Get(ret[1].response.fields["metadata"], "session.id") = Text("demo")
    /\ Get(ret[1].response.fields["metadata"], "sessionId") = Text("demo")

\* C27: for every key of the user's metadata: an attribution key whose
\* Langfuse Context value is non-empty holds the Context's value in the
\* chat-client metadata (the session id, the user id, the tag list, the
\* joined tags); an attribution key whose Context value is empty, and every
\* other key, holds the user's value.
C27_AttributionPrecedence ==
    \A i \in Inv :
        Returned(i) =>
            LET md == ret[i].response.fields["metadata"]
                u == UserMetadataOf(i)
            IN  \A k \in DOMAIN u :
                    /\ k \in DOMAIN md
                    /\ md[k] =
                        IF k \in {"session.id", "sessionId"} /\ NonEmpty(SessionOf(i))
                        THEN SessionOf(i)
                        ELSE IF k \in {"user.id", "userId"} /\ NonEmpty(UserOf(i))
                        THEN UserOf(i)
                        ELSE IF k = "langfuse.trace.tags" /\ HandlerTagsOf(i).t = "arr"
                        THEN HandlerTagsOf(i)
                        ELSE IF k = "tags" /\ HandlerTagsOf(i).t = "arr"
                        THEN ExpectedJoinedTags(Get(LangfuseOf(i), "tags").s)
                        ELSE u[k]

C27_Witness ==
    /\ Returned(1)
    /\ Get(LangfuseOf(1), "metadata") = JStr(TextObjAttribution)
    /\ SessionOf(1) = Text("session-1")
    /\ "userId" \notin DOMAIN LangfuseOf(1)
    /\ Get(LangfuseOf(1), "tags") = JStr(<<"a", ",", " ", "b", ",">>)
    /\ ret[1].response.fields["metadata"]["session.id"] = Text("session-1")
    /\ ret[1].response.fields["metadata"]["sessionId"] = Text("session-1")
    /\ ret[1].response.fields["metadata"]["user.id"] = Text("demo")
    /\ ret[1].response.fields["metadata"]["userId"] = Text("demo")
    /\ ret[1].response.fields["metadata"]["tags"] = JStr(<<"a", ",", "b">>)
    /\ ret[1].response.fields["metadata"]["project"] = JNum("1")

\* What a metadata text is to become: the empty object when blank, the
\* parsed value when it is JSON, the raw-string wrapper otherwise.
TextOutcome(v) ==
    IF Blank(v.s) THEN JObj(EmptyObj)
    ELSE IF jsonParse(v.s).ok THEN jsonParse(v.s).v
    ELSE JObj("_raw" :> v)

\* C25: a non-empty 'metadata' field is the only source of the Langfuse
\* metadata, whatever 'customMetadata' holds; 'customMetadata' is the source
\* only when 'metadata' is absent or empty, and is used as it is when it is
\* an object; with both absent the metadata are the empty object.
C25_MetadataSource ==
    \A i \in Inv :
        BodyRan(i) =>
            LET new == Get(LangfuseOf(i), "metadata")
                old == Get(LangfuseOf(i), "customMetadata")
            IN  ret[i].metadata =
                    IF NonEmpty(new) THEN TextOutcome(new)
                    ELSE IF old.t = "obj" THEN old
                    ELSE IF NonEmpty(old) THEN TextOutcome(old)
                    ELSE JObj(EmptyObj)

C25_Witness ==
    /\ Returned(1)
    /\ Get(LangfuseOf(1), "metadata") = JStr(TextObjSession)
    /\ Get(LangfuseOf(1), "customMetadata") = JObj("project" :> Text("legacy"))
    /\ ret[1].metadata = JObj("sessionId" :> Text("demo"))

C25_WitnessOldField ==
    /\ Returned(1)
    /\ Get(LangfuseOf(1), "metadata") = JStr(<<>>)
    /\ Get(LangfuseOf(1), "customMetadata") = JObj("project" :> Text("legacy"))
    /\ ret[1].metadata = JObj("project" :> Text("legacy"))

C25_WitnessNone ==
    /\ Returned(1)
    /\ "langfuseMetadata" \in DOMAIN ctx[1].params
    /\ DOMAIN LangfuseOf(1) \cap {"metadata", "customMetadata"} = {}
    /\ ret[1].metadata = JObj(EmptyObj)

\* C26: once the metadata parse step has run the metadata are an object,
\* whatever the metadata input (a text that is JSON but no object included),
\* and the read of metadata.langfusePrompt does not throw.
C26_AlwaysObject ==
    \A i \in Inv :
        BodyRan(i) =>
            /\ ret[i].metadata.t = "obj"
            /\ ret[i].error # "TypeError: metadata"

\* The invocation that C26 fails on: the metadata text "null".
C26_NullMetadataThrows ==
    /\ pc[1] = "threw"
    /\ Get(LangfuseOf(1), "metadata") = JStr(TextNull)
    /\ ret[1].metadata = JNull
    /\ ret[1].error = "TypeError: metadata"
    /\ ~ret[1].started

\* The call before the last one, as the wrapped handler received it.
PreviousSuperCall == superCalls[Len(superCalls) - 1]

\* C28: the mapping is idempotent: when handleLLMEnd is given the result
\* object that an earlier call of it left behind, it changes nothing, so the
\* object after the second call, and what the wrapped handler receives,
\* equal the object after the first.
C28_Idempotent ==
    (calls >= 2 /\ call.output = PreviousSuperCall.output) =>
        /\ output = call.output
        /\ LastSuperCall.output = PreviousSuperCall.output

C28_Witness ==
    /\ calls = 2
    /\ call.output = PreviousSuperCall.output
    /\ output = call.output
    /\ EstOf(output) = Usage5
    /\ TokOf(output) = Usage5

C28_WitnessBothPresent ==
    /\ calls = 2
    /\ call.output = PreviousSuperCall.output
    /\ EstOf(output) = Usage5
    /\ TokOf(output) = Usage7

=============================================================================
